---- MODULE Spec2Model ----
(***************************************************************************)
(* The session core of the broker (src/session/session.go): one Session,   *)
(* its Info, its private subscription trie, its bindings in the topic      *)
(* exchange, its record in the manager's session bucket, its two queues    *)
(* and its acknowledgement cache.                                          *)
(*                                                                         *)
(* Every locked operation of the session holds s.mut for its whole body,   *)
(* so each is one action here.  The collaborators whose code is not part   *)
(* of session.go (trie, queues, bucket, exchange, cache) are modelled at   *)
(* their interface; their failures are nondeterministic choices.           *)
(***************************************************************************)
EXTENDS Integers, Sequences, FiniteSets, TLC

\* ---------------------------------------------------------------- bounds
MaxBatch == 1      \* longest subscribe batch / unsubscribe topic list
MaxPush == 1       \* number of Push calls explored
MaxId == 2         \* number of ids handed to the acknowledgement cache
NProcs == 2        \* goroutines calling into the session concurrently
MaxInflight == 1   \* m.cfg.MaxInflightQOS1Messages: events a queue buffers

\* ------------------------------------------------------------ input sets
\* the QoS levels the session distinguishes: best effort and guaranteed
QOS == { 0, 1 }

\* topic filters held by the Info a session is built from, as sequences of levels
Patterns == { <<"a", "#">>, <<"a", "b">> }

\* topic filters a client names in subscribe: a held one and a new one
Filters == { <<"a", "b">>, <<"x">> }

\* topics of inbound events
EventTopics == { <<"a", "b">>, <<"c">> }

\* topics asked of matchQOS
QueryTopics == Patterns \cup Filters \cup EventTopics

Wills == { "none", "w" }

Events == [topic : EventTopics, qos : QOS]

\* all maps topic -> qos over subsets of D (Info.Subscriptions, trie contents)
Maps(D) == UNION { [S -> QOS] : S \in SUBSET D }

\* sequences over S of length 0..n
RECURSIVE SeqsUpTo(_, _)
SeqsUpTo(S, n) ==
    IF n = 0 THEN { <<>> }
    ELSE LET shorter == SeqsUpTo(S, n - 1)
         IN  shorter \cup { Append(s, x) : s \in { t \in shorter : Len(t) = n - 1 }, x \in S }

\* the (topic, qos) pairs a client asks for
Subscription == { [topic |-> <<"a", "b">>, qos |-> 1],
                  [topic |-> <<"x">>, qos |-> 0] }
Batches == SeqsUpTo(Subscription, MaxBatch)
\* topic lists a client unsubscribes: held topics and topics not held
TopicLists == SeqsUpTo(Patterns, MaxBatch)

\* the auth argument of subscribe: nil, or a predicate given by the topics it rejects
Auths == { [nil |-> TRUE, rejects |-> {}] }
           \cup { [nil |-> FALSE, rejects |-> R] : R \in SUBSET Patterns }

Nothing == [nothing |-> TRUE]

\* the goroutines that call into one session
Procs == 1 .. NProcs

VARIABLES
    info,       \* s.info: [will, subs, clean]
    subs,       \* s.subs: the session's trie, topic filter -> qos
    bound,      \* topics bound to this session in s.manager.exch
    bucket,     \* records held by s.manager.sessionBucket under s.info.ID
    stored,     \* whether the latest SetKV/DelKV of persistent() succeeded
    qos0,       \* events accepted by the temporary queue
    qos1,       \* events accepted by the persistent queue
    qclose,     \* the flag each queue's Close received, "open" before
    cache,      \* ids held by s.cache
    nextId,     \* next id to be stored in the cache
    nPush,      \* Push calls made so far (identity of the event pushed)
    last,       \* latest completed call: [op, args, res, again]
    pc,         \* per goroutine: where it stands in the call it is making
    call,       \* per goroutine: the call it is making or has just made
    mut         \* s.mut: [w: the goroutine holding Lock or 0, r: those holding RLock]

\* the state of the lock-level view: calls in progress and the mutex
lockVars == << pc, call, mut >>

vars == << info, subs, bound, bucket, stored, qos0, qos1, qclose,
           cache, nextId, nPush, last, pc, call, mut >>


\* ------------------------------------------------- collaborators: the trie
\* mqtt.Trie.Empty: unregisters all values of the topic; a no-op when absent
TrieEmpty(t, topic) ==
    [p \in DOMAIN t \ {topic} |-> t[p]]

\* whether a registered filter matches a topic, level by level: "#" matches
\* the rest (and the parent level), "+" exactly one level, anything else
\* itself; a wildcard level of the topic matches no literal level
RECURSIVE TopicMatches(_, _)
TopicMatches(pattern, topic) ==
    IF pattern # <<>> /\ Head(pattern) = "#" THEN TRUE
    ELSE IF topic = <<>> THEN pattern = <<>>
    ELSE IF pattern = <<>> THEN FALSE
    ELSE IF Head(pattern) = "+" THEN TopicMatches(Tail(pattern), Tail(topic))
    ELSE /\ Head(pattern) = Head(topic)
         /\ Head(topic) \notin { "+", "#" }
         /\ TopicMatches(Tail(pattern), Tail(topic))

\* mqtt.Trie.Match: the values of every filter matching the topic, duplicates removed
TrieMatch(t, topic) ==
    { t[p] : p \in { f \in DOMAIN t : TopicMatches(f, topic) } }

SetMax(S) == CHOOSE m \in S : \A x \in S : x <= m

\* mqtt.MatchTopicQOS: whether anything matches and the highest matching qos
MatchTopicQOS(t, topic) ==
    LET qs == TrieMatch(t, topic)
    IN  [ok |-> qs # {}, qos |-> IF qs = {} THEN 0 ELSE SetMax(qs)]

\* ---------------------------------------------- collaborators: the cache
\* cache.delete: removes the id; an error when the id is not held
CacheDelete(c, id) ==
    [cache |-> c \ {id}, err |-> id \notin c]

\* ------------------------------------------------------------ persistence
\* json.Marshal of Info: id, will and subs; CleanSession is json:"-"
Record(i) == [will |-> i.will, subs |-> i.subs]

\* faulty variant: persistent() that always upserts, whatever CleanSession says
persistentAlwaysSet(i, b, ok) ==
    IF ok THEN { Record(i) } ELSE b

\* persistent(): DelKV when CleanSession, else SetKV; a failed call is only
\* logged and leaves the bucket as it was
persistent(i, b, ok) ==
    IF i.clean
    THEN IF ok THEN {} ELSE b
    ELSE IF ok THEN { Record(i) } ELSE b

\* ---------------------------------------------------- subscribe, the body
MapRestrict(m, D) == [p \in DOMAIN m \cap D |-> m[p]]

\* faulty variant: the batch's topics are bound in the exchange but never
\* recorded in Info
SubscribeStateBindsBatch(i, t, b, batch, auth) ==
    [info  |-> i,
     subs  |-> t,
     bound |-> b \cup { batch[k].topic : k \in 1 .. Len(batch) },
     asked |-> {}, rejected |-> {}]

\* faulty variant: only the topics of the batch are re-checked
SubscribeStateChecksBatch(i, t, b, batch, auth) ==
    LET held == i.subs
        t1   == [p \in DOMAIN t \cup DOMAIN held |->
                    IF p \in DOMAIN held THEN held[p] ELSE t[p]]
        b1   == b \cup DOMAIN held
        ask  == IF auth.nil THEN {}
                ELSE DOMAIN held \cap { batch[k].topic : k \in 1 .. Len(batch) }
        rej  == { p \in ask : p \in auth.rejects }
    IN  [info  |-> [i EXCEPT !.subs = MapRestrict(held, DOMAIN held \ rej)],
         subs  |-> MapRestrict(t1, DOMAIN t1 \ rej),
         bound |-> b1 \ rej,
         asked |-> ask, rejected |-> rej]

\* subscribe, lines 133-150.  The first loop ranges over s.info.Subscriptions
\* (the batch is read only for its length, by the caller): every held
\* subscription is set in the trie and bound in the exchange.  The second
\* loop drops every held topic the predicate rejects.  asked: the topics the
\* predicate is called with; rejected: those it refuses, each one logged.
SubscribeState(i, t, b, batch, auth) ==
    LET held == i.subs
        \* mqtt.Trie.Set for every held topic: its qos becomes the only value
        t1   == [p \in DOMAIN t \cup DOMAIN held |->
                    IF p \in DOMAIN held THEN held[p] ELSE t[p]]
        b1   == b \cup DOMAIN held
        rej  == { p \in DOMAIN held : ~auth.nil /\ p \in auth.rejects }
    IN  [info  |-> [i EXCEPT !.subs = MapRestrict(held, DOMAIN held \ rej)],
         subs  |-> MapRestrict(t1, DOMAIN t1 \ rej),
         bound |-> b1 \ rej,
         asked |-> IF auth.nil THEN {} ELSE DOMAIN held,
         rejected |-> rej]

\* -------------------------------------------------- unsubscribe, the body
\* faulty variant: the trie is never emptied
UnsubscribeOneKeepsTrie(st, topic) ==
    [info  |-> [st.info EXCEPT !.subs = MapRestrict(@, DOMAIN @ \ {topic})],
     subs  |-> st.subs,
     bound |-> st.bound \ {topic}]

\* faulty variant: the trie is emptied only for topics Info no longer holds
UnsubscribeOneInverted(st, topic) ==
    [info  |-> [st.info EXCEPT !.subs = MapRestrict(@, DOMAIN @ \ {topic})],
     subs  |-> IF topic \in DOMAIN st.info.subs THEN st.subs
               ELSE TrieEmpty(st.subs, topic),
     bound |-> st.bound \ {topic}]

\* one turn of the loop of unsubscribe, lines 164-166
UnsubscribeOne(st, topic) ==
    [info  |-> [st.info EXCEPT !.subs = MapRestrict(@, DOMAIN @ \ {topic})],
     subs  |-> TrieEmpty(st.subs, topic),
     bound |-> st.bound \ {topic}]

\* the loop of unsubscribe, line 163, over the topic list in order
RECURSIVE UnsubscribeState(_, _)
UnsubscribeState(st, topics) ==
    IF topics = <<>> THEN st
    ELSE UnsubscribeState(UnsubscribeOne(st, Head(topics)), Tail(topics))

\* ----------------------------------------------------------- Push, routing
\* faulty variant: the lowest matching qos decides
RouteMinQos(t, e) ==
    IF e.qos = 0 THEN [pushed |-> {"qos0"}, done |-> 0]
    ELSE LET qs == TrieMatch(t, e.topic)
         IN  IF qs = {} THEN [pushed |-> {}, done |-> 1]
             ELSE IF \A q \in qs : q > 0 THEN [pushed |-> {"qos1"}, done |-> 0]
             ELSE [pushed |-> {"qos0"}, done |-> 0]

\* faulty variant: an unmatched event falls through to the qos0 queue, Done not called
RouteNoDrop(t, e) ==
    IF e.qos = 0 THEN [pushed |-> {"qos0"}, done |-> 0]
    ELSE LET qs == TrieMatch(t, e.topic)
         IN  IF \E q \in qs : q > 0 THEN [pushed |-> {"qos1"}, done |-> 0]
             ELSE [pushed |-> {"qos0"}, done |-> 0]

\* faulty variant: the qos 0 shortcut is missing, every event is arbitrated
RouteNoBypass(t, e) ==
    LET qs == TrieMatch(t, e.topic)
    IN  IF qs = {} THEN [pushed |-> {}, done |-> 1]
        ELSE IF \E q \in qs : q > 0 THEN [pushed |-> {"qos1"}, done |-> 0]
        ELSE [pushed |-> {"qos0"}, done |-> 0]

\* Push, lines 100-120: the queues whose Push is called and the number of
\* times e.Done() is called
Route(t, e) ==
    IF e.qos = 0 THEN [pushed |-> {"qos0"}, done |-> 0]
    ELSE LET qs == TrieMatch(t, e.topic)
         IN  IF qs = {} THEN [pushed |-> {}, done |-> 1]
             ELSE IF \E q \in qs : q > 0 THEN [pushed |-> {"qos1"}, done |-> 0]
             ELSE [pushed |-> {"qos0"}, done |-> 0]


\* ------------------------------------------------------------------ state
\* the record of a completed call; again: it repeats the call before it
Call(op, args, res) ==
    [op |-> op, args |-> args, res |-> res,
     again |-> (last.op = op /\ last.args = args)]

\* a goroutine that is making no call; f0 and f1: the flags a close has
\* passed to the two queues
NoCall == [op |-> "none", f0 |-> "none", f1 |-> "none"]

\* newSession, lines 40-68, bucket creation succeeding: the Info is taken as
\* given, the trie is new and empty, nothing is bound, both queues are open
\* and empty, the cache is anchored at the counter's first id, and
\* persistent() has run once.  Before it the bucket held either nothing
\* under the id or the record the Info was loaded from.
Init ==
    \E will \in Wills, held \in Maps(Patterns), clean \in BOOLEAN,
       loaded \in BOOLEAN, ok \in BOOLEAN :
        LET i == [will |-> will, subs |-> held, clean |-> clean]
        IN  /\ info = i
            /\ subs = MapRestrict(held, {})
            /\ bound = {}
            /\ bucket = persistent(i, IF loaded THEN { Record(i) } ELSE {}, ok)
            /\ stored = ok
            /\ qos0 = <<>>
            /\ qos1 = <<>>
            /\ qclose = [qos0 |-> "open", qos1 |-> "open"]
            /\ cache = {}
            /\ nextId = 1
            /\ nPush = 0
            /\ last = [op |-> "newSession", args |-> i,
                       res |-> [stored |-> ok, err |-> FALSE], again |-> FALSE]
            /\ pc = [p \in Procs |-> "idle"]
            /\ call = [p \in Procs |-> NoCall]
            /\ mut = [w |-> 0, r |-> {}]

\* ---------------------------------------------------------------- actions
\* Each operation as one step, from call to return: the locked ones hold
\* s.mut for their whole body.  The lock-level view further down splits a
\* call into its acquire and its body.
\* close(), lines 70-81: each queue is closed with CleanSession
close ==
    /\ qclose' = [qos0 |-> IF info.clean THEN "discard" ELSE "retain",
                  qos1 |-> IF info.clean THEN "discard" ELSE "retain"]
    /\ last' = Call("close", Nothing, Nothing)
    /\ UNCHANGED << info, subs, bound, bucket, stored, qos0, qos1,
                    cache, nextId, nPush, lockVars >>

\* faulty variant: persistent() runs before the fields are assigned
updatePersistsFirst ==
    \E will \in Wills, clean \in BOOLEAN, ok \in BOOLEAN :
        /\ info' = [info EXCEPT !.will = will, !.clean = clean]
        /\ bucket' = persistent(info, bucket, ok)
        /\ stored' = ok
        /\ last' = Call("update", [will |-> will, clean |-> clean],
                        [stored |-> ok])
        /\ UNCHANGED << subs, bound, qos0, qos1, qclose, cache, nextId, nPush, lockVars >>

\* faulty variant: a failed storage call undoes the in-memory change
updateRollsBack ==
    \E will \in Wills, clean \in BOOLEAN, ok \in BOOLEAN :
        LET i == [info EXCEPT !.will = will, !.clean = clean]
        IN  /\ info' = IF ok THEN i ELSE info
            /\ bucket' = persistent(i, bucket, ok)
            /\ stored' = ok
            /\ last' = Call("update", [will |-> will, clean |-> clean],
                            [stored |-> ok])
            /\ UNCHANGED << subs, bound, qos0, qos1, qclose, cache, nextId, nPush, lockVars >>

\* update(si), lines 85-93
update ==
    \E will \in Wills, clean \in BOOLEAN, ok \in BOOLEAN :
        LET i == [info EXCEPT !.will = will, !.clean = clean]
        IN  /\ info' = i
            /\ bucket' = persistent(i, bucket, ok)
            /\ stored' = ok
            /\ last' = Call("update", [will |-> will, clean |-> clean],
                            [stored |-> ok])
            /\ UNCHANGED << subs, bound, qos0, qos1, qclose, cache, nextId, nPush, lockVars >>

\* faulty variant: a refused push is retried on the other queue, the event
\* is completed and nil is returned
PushSwallows ==
    \E e \in Events, qok \in BOOLEAN :
        LET r  == Route(subs, e)
            id == nPush + 1
            refused == r.pushed # {} /\ ~qok
        IN  /\ nPush < MaxPush
            /\ nPush' = id
            /\ qos0' = IF "qos0" \in r.pushed /\ qok THEN Append(qos0, id) ELSE qos0
            /\ qos1' = IF "qos1" \in r.pushed /\ qok THEN Append(qos1, id) ELSE qos1
            /\ last' = Call("Push", [ev |-> e, id |-> id],
                            [pushed |-> IF refused THEN {"qos0", "qos1"} ELSE r.pushed,
                             done |-> IF refused THEN 1 ELSE r.done,
                             qerr |-> refused,
                             err |-> FALSE])
            /\ UNCHANGED << info, subs, bound, bucket, stored, qclose, cache, nextId, lockVars >>

\* Push(e), lines 96-121; qok: whether the queue called accepts the event,
\* qerr: the queue refused it, err: what Push returns
Push ==
    \E e \in Events, qok \in BOOLEAN :
        LET r  == Route(subs, e)
            id == nPush + 1
        IN  /\ nPush < MaxPush
            /\ nPush' = id
            /\ qos0' = IF "qos0" \in r.pushed /\ qok THEN Append(qos0, id) ELSE qos0
            /\ qos1' = IF "qos1" \in r.pushed /\ qok THEN Append(qos1, id) ELSE qos1
            /\ last' = Call("Push", [ev |-> e, id |-> id],
                            [pushed |-> r.pushed, done |-> r.done,
                             qerr |-> (r.pushed # {} /\ ~qok),
                             err |-> (r.pushed # {} /\ ~qok)])
            /\ UNCHANGED << info, subs, bound, bucket, stored, qclose, cache, nextId, lockVars >>

\* faulty variant: no early return on an empty batch
subscribeAlways ==
    \E batch \in Batches, auth \in Auths, ok \in BOOLEAN :
        LET st == SubscribeState(info, subs, bound, batch, auth)
        IN  /\ info' = st.info
            /\ subs' = st.subs
            /\ bound' = st.bound
            /\ bucket' = persistent(st.info, bucket, ok)
            /\ stored' = ok
            /\ last' = Call("subscribe", [batch |-> batch, auth |-> auth],
                            [stored |-> ok, persisted |-> TRUE,
                             asked |-> st.asked, rejected |-> st.rejected])
            /\ UNCHANGED << qos0, qos1, qclose, cache, nextId, nPush, lockVars >>

\* subscribe(subs, auth), lines 125-153
subscribe ==
    \E batch \in Batches, auth \in Auths, ok \in BOOLEAN :
        IF Len(batch) = 0
        THEN /\ last' = Call("subscribe", [batch |-> batch, auth |-> auth],
                             [stored |-> stored, persisted |-> FALSE,
                              asked |-> {}, rejected |-> {}])
             /\ UNCHANGED << info, subs, bound, bucket, stored, qos0, qos1,
                             qclose, cache, nextId, nPush, lockVars >>
        ELSE LET st == SubscribeState(info, subs, bound, batch, auth)
             IN  /\ info' = st.info
                 /\ subs' = st.subs
                 /\ bound' = st.bound
                 /\ bucket' = persistent(st.info, bucket, ok)
                 /\ stored' = ok
                 /\ last' = Call("subscribe", [batch |-> batch, auth |-> auth],
                                 [stored |-> ok, persisted |-> TRUE,
                                  asked |-> st.asked, rejected |-> st.rejected])
                 /\ UNCHANGED << qos0, qos1, qclose, cache, nextId, nPush, lockVars >>

\* unsubscribe(topics), lines 155-170
unsubscribe ==
    \E topics \in TopicLists, ok \in BOOLEAN :
        IF Len(topics) = 0
        THEN /\ last' = Call("unsubscribe", [topics |-> topics],
                             [stored |-> stored, persisted |-> FALSE])
             /\ UNCHANGED << info, subs, bound, bucket, stored, qos0, qos1,
                             qclose, cache, nextId, nPush, lockVars >>
        ELSE LET st == UnsubscribeState(
                           [info |-> info, subs |-> subs, bound |-> bound], topics)
             IN  /\ info' = st.info
                 /\ subs' = st.subs
                 /\ bound' = st.bound
                 /\ bucket' = persistent(st.info, bucket, ok)
                 /\ stored' = ok
                 /\ last' = Call("unsubscribe", [topics |-> topics],
                                 [stored |-> ok, persisted |-> TRUE])
                 /\ UNCHANGED << qos0, qos1, qclose, cache, nextId, nPush, lockVars >>

\* will(), lines 172-176
will ==
    /\ last' = Call("will", Nothing, [will |-> info.will])
    /\ UNCHANGED << info, subs, bound, bucket, stored, qos0, qos1, qclose,
                    cache, nextId, nPush, lockVars >>

\* cleanWill(), lines 178-183
cleanWill ==
    \E ok \in BOOLEAN :
        LET i == [info EXCEPT !.will = "none"]
        IN  /\ info' = i
            /\ bucket' = persistent(i, bucket, ok)
            /\ stored' = ok
            /\ last' = Call("cleanWill", Nothing, [stored |-> ok])
            /\ UNCHANGED << subs, bound, qos0, qos1, qclose, cache, nextId, nPush, lockVars >>

\* matchQOS(topic), lines 185-189; unsubscribed: the topic list of the
\* unsubscribe call matchQOS directly follows, if it follows one
matchQOS ==
    \E topic \in QueryTopics :
        /\ last' = Call("matchQOS", [topic |-> topic],
                        [match |-> MatchTopicQOS(subs, topic),
                         unsubscribed |-> IF last.op = "unsubscribe"
                                          THEN last.args.topics ELSE <<>>])
        /\ UNCHANGED << info, subs, bound, bucket, stored, qos0, qos1, qclose,
                        cache, nextId, nPush, lockVars >>

\* faulty variant: a failed delete drops the whole cache
acknowledgeResets ==
    \E id \in 1 .. MaxId + 1 :
        LET d == CacheDelete(cache, id)
        IN  /\ cache' = IF d.err THEN {} ELSE d.cache
            /\ last' = Call("acknowledge", [id |-> id],
                            [warned |-> d.err, err |-> FALSE])
            /\ UNCHANGED << info, subs, bound, bucket, stored, qos0, qos1,
                            qclose, nextId, nPush, lockVars >>

\* acknowledge(id), lines 191-199: the error of cache.delete is logged, the
\* function returns nothing
acknowledge ==
    \E id \in 1 .. MaxId + 1 :
        LET d == CacheDelete(cache, id)
        IN  /\ cache' = d.cache
            /\ last' = Call("acknowledge", [id |-> id],
                            [warned |-> d.err, err |-> FALSE])
            /\ UNCHANGED << info, subs, bound, bucket, stored, qos0, qos1,
                            qclose, nextId, nPush, lockVars >>

\* the delivery path hands a message to the client and stores its id in the
\* cache; ids are issued in increasing order and never reused
cacheStore ==
    /\ nextId <= MaxId
    /\ cache' = cache \cup {nextId}
    /\ nextId' = nextId + 1
    /\ last' = Call("cacheStore", [id |-> nextId], Nothing)
    /\ UNCHANGED << info, subs, bound, bucket, stored, qos0, qos1, qclose, nPush, lockVars >>

Next ==
    \/ close
    \/ update
    \/ Push
    \/ subscribe
    \/ unsubscribe
    \/ will
    \/ cleanWill
    \/ matchQOS
    \/ acknowledge
    \/ cacheStore

Spec == Init /\ [][Next]_vars

\* The operations fall into three groups by the state they write: the
\* subscriptions, the will, the flag, the bucket and the queues' closing;
\* the queues' contents; the cache.  No group reads what another writes,
\* except that Push reads the trie.  Spec is the product of the three and
\* has millions of states; each group is explored alone (Push together with
\* the operations that write the trie), which loses no state of the
\* variables the group reads or writes.
SessionNext ==
    \/ close
    \/ update
    \/ subscribe
    \/ unsubscribe
    \/ will
    \/ cleanWill
    \/ matchQOS

PushNext ==
    \/ Push
    \/ subscribe
    \/ unsubscribe

AckNext ==
    \/ acknowledge
    \/ cacheStore

SpecSession == Init /\ [][SessionNext]_vars

SpecPush == Init /\ [][PushNext]_vars

SpecAck == Init /\ [][AckNext]_vars



\* a session created with no subscriptions, then only subscribe and
\* unsubscribe
InitEmpty == Init /\ DOMAIN info.subs = {}

EmptyNext == subscribe \/ unsubscribe

SpecEmpty == InitEmpty /\ [][EmptyNext]_vars

\* ------------------------------------------------------- construction
Infos == [will : Wills, subs : Maps(Patterns), clean : BOOLEAN]

NoInfo == [will |-> "none", subs |-> MapRestrict(<<>>, {}), clean |-> FALSE]

\* before newSession: no session and no queue exists; the bucket holds
\* nothing under the id or a record stored by an earlier session
InitNew ==
    \E rec \in { Record(i) : i \in Infos }, fresh \in BOOLEAN :
        /\ info = NoInfo
        /\ subs = MapRestrict(<<>>, {})
        /\ bound = {}
        /\ bucket = IF fresh THEN {} ELSE { rec }
        /\ stored = FALSE
        /\ qos0 = <<>>
        /\ qos1 = <<>>
        /\ qclose = [qos0 |-> "none", qos1 |-> "none"]
        /\ cache = {}
        /\ nextId = 1
        /\ nPush = 0
        /\ last = [op |-> "start", args |-> Nothing, res |-> Nothing, again |-> FALSE]
        /\ pc = [p \in Procs |-> "idle"]
        /\ call = [p \in Procs |-> NoCall]
        /\ mut = [w |-> 0, r |-> {}]

\* newSession(i, m), lines 40-68; bkok: m.store.NewBucket succeeds.  The
\* temporary queue is created with the Session value (line 45), before the
\* bucket; on failure the Session value is dropped as it is.  The call is
\* made while no session exists, with a new Info or the stored one.
newSession ==
    \E i \in Infos, bkok \in BOOLEAN, ok \in BOOLEAN :
        /\ last.op = "start" \/ (last.op = "newSession" /\ last.res.err)
        /\ bucket = {} \/ bucket = { Record(i) }
        /\ IF bkok
           THEN /\ info' = i
                /\ qclose' = [qos0 |-> "open", qos1 |-> "open"]
                /\ bucket' = persistent(i, bucket, ok)
                /\ stored' = ok
                /\ last' = Call("newSession", i, [stored |-> ok, err |-> FALSE])
           ELSE /\ qclose' = [qclose EXCEPT !.qos0 = "open"]
                /\ last' = Call("newSession", i, [stored |-> stored, err |-> TRUE])
                /\ UNCHANGED << info, bucket, stored >>
        /\ UNCHANGED << subs, bound, qos0, qos1, cache, nextId, nPush, lockVars >>

NewNext == newSession

SpecNew == InitNew /\ [][NewNext]_vars

\* ------------------------------------------------------ the lock-level view
\* A call is split into steps: the goroutine starts the call, acquires s.mut
\* (Lock or RLock), and runs the body and the deferred unlock as one step,
\* since nothing but close() reads the session without the mutex.  The
\* arguments are fixed, storage succeeds, and `last` is not written here.
\* close() takes no lock and reads s.info.CleanSession once per queue; it is
\* run against update, the one operation that writes CleanSession.
LockedOps == { "update", "Push", "subscribe", "unsubscribe", "will",
               "cleanWill", "matchQOS", "acknowledge" }

LockBatch == << [topic |-> <<"x">>, qos |-> 0] >>
LockTopics == << <<"a", "b">> >>
LockTopic == <<"a", "b">>
LockEvent == [topic |-> LockTopic, qos |-> 1]
LockInfo == [will |-> "none", clean |-> TRUE]
NilAuth == [nil |-> TRUE, rejects |-> {}]

\* faulty variant: Push takes the read lock
LockKindPushReads(op) ==
    IF op \in { "will", "matchQOS", "acknowledge", "Push" } THEN "read" ELSE "write"

\* which side of s.mut an operation takes: RLock in will, matchQOS and
\* acknowledge (lines 173, 186, 192), Lock in the others (86, 97, 130, 160, 179)
LockKind(op) ==
    IF op \in { "will", "matchQOS", "acknowledge" } THEN "read" ELSE "write"

\* sync.RWMutex: Lock waits for the writer and all readers to leave, RLock
\* for the writer
CanLock(m, kind) ==
    IF kind = "write" THEN m.w = 0 /\ m.r = {} ELSE m.w = 0

Acquired(m, p, kind) ==
    IF kind = "write" THEN [m EXCEPT !.w = p] ELSE [m EXCEPT !.r = @ \cup {p}]

\* faulty variant: the deferred Unlock of a writer is missing
ReleasedReadersOnly(m, p) ==
    [w |-> m.w, r |-> m.r \ {p}]

\* the deferred Unlock / RUnlock
Released(m, p) ==
    [w |-> IF m.w = p THEN 0 ELSE m.w, r |-> m.r \ {p}]

\* whether the queue Push would call has room; the persistent queue makes
\* its producer wait while it is full, the temporary one never does
HasRoom(q) == Len(q) < MaxInflight

\* the InitLock session: built from a stored Info with a will and one
\* guaranteed subscription
InitLock ==
    /\ Init
    /\ info = [will |-> "w", subs |-> (LockTopic :> 1), clean |-> FALSE]
    /\ stored
    /\ bucket = { Record(info) }

\* a goroutine calls one of the locked operations
begin(p) ==
    \E op \in LockedOps :
        /\ pc[p] = "idle"
        /\ pc' = [pc EXCEPT ![p] = "lock"]
        /\ call' = [call EXCEPT ![p] = [NoCall EXCEPT !.op = op]]
        /\ UNCHANGED << info, subs, bound, bucket, stored, qos0, qos1, qclose,
                        cache, nextId, nPush, last, mut >>

\* s.mut.Lock() / s.mut.RLock()
lock(p) ==
    /\ pc[p] = "lock"
    /\ CanLock(mut, LockKind(call[p].op))
    /\ mut' = Acquired(mut, p, LockKind(call[p].op))
    /\ pc' = [pc EXCEPT ![p] = "in"]
    /\ UNCHANGED << info, subs, bound, bucket, stored, qos0, qos1, qclose,
                    cache, nextId, nPush, last, call >>

\* the body of the operation under the lock, then the deferred unlock
finish(p) ==
    LET op == call[p].op
        i1 == IF op = "update"
              THEN [info EXCEPT !.will = LockInfo.will, !.clean = LockInfo.clean]
              ELSE IF op = "cleanWill" THEN [info EXCEPT !.will = "none"]
              ELSE info
        st == IF op = "subscribe"
              THEN SubscribeState(info, subs, bound, LockBatch, NilAuth)
              ELSE IF op = "unsubscribe"
              THEN UnsubscribeState([info |-> info, subs |-> subs, bound |-> bound],
                                    LockTopics)
              ELSE [info |-> i1, subs |-> subs, bound |-> bound]
        r  == IF op = "Push" THEN Route(subs, LockEvent)
              ELSE [pushed |-> {}, done |-> 0]
    IN  /\ pc[p] = "in"
        /\ "qos1" \in r.pushed => HasRoom(qos1)
        /\ info' = st.info
        /\ subs' = st.subs
        /\ bound' = st.bound
        /\ bucket' = IF op \in { "update", "cleanWill", "subscribe", "unsubscribe" }
                     THEN persistent(st.info, bucket, TRUE) ELSE bucket
        /\ qos0' = IF "qos0" \in r.pushed /\ HasRoom(qos0) THEN Append(qos0, 1) ELSE qos0
        /\ qos1' = IF "qos1" \in r.pushed THEN Append(qos1, 1) ELSE qos1
        /\ cache' = IF op = "acknowledge" THEN CacheDelete(cache, 1).cache ELSE cache
        /\ mut' = Released(mut, p)
        /\ pc' = [pc EXCEPT ![p] = "idle"]
        /\ call' = [call EXCEPT ![p] = NoCall]
        /\ UNCHANGED << stored, qclose, nextId, nPush, last >>

\* a goroutine calls close()
beginClose(p) ==
    /\ pc[p] = "idle"
    /\ pc' = [pc EXCEPT ![p] = "close0"]
    /\ call' = [call EXCEPT ![p] = [NoCall EXCEPT !.op = "close"]]
    /\ UNCHANGED << info, subs, bound, bucket, stored, qos0, qos1, qclose,
                    cache, nextId, nPush, last, mut >>

CloseFlag(clean) == IF clean THEN "discard" ELSE "retain"

\* s.qos0.Close(s.info.CleanSession), line 75
close0(p) ==
    /\ pc[p] = "close0"
    /\ qclose' = [qclose EXCEPT !.qos0 = CloseFlag(info.clean)]
    /\ call' = [call EXCEPT ![p].f0 = CloseFlag(info.clean)]
    /\ pc' = [pc EXCEPT ![p] = "close1"]
    /\ UNCHANGED << info, subs, bound, bucket, stored, qos0, qos1,
                    cache, nextId, nPush, last, mut >>

\* s.qos1.Close(s.info.CleanSession), line 79; the call stays on record
\* until the goroutine's next call
close1(p) ==
    /\ pc[p] = "close1"
    /\ qclose' = [qclose EXCEPT !.qos1 = CloseFlag(info.clean)]
    /\ call' = [call EXCEPT ![p].f1 = CloseFlag(info.clean)]
    /\ pc' = [pc EXCEPT ![p] = "idle"]
    /\ UNCHANGED << info, subs, bound, bucket, stored, qos0, qos1,
                    cache, nextId, nPush, last, mut >>

\* the persistent queue's consumer takes the oldest event
drain ==
    /\ qos1 # <<>>
    /\ qos1' = Tail(qos1)
    /\ UNCHANGED << info, subs, bound, bucket, stored, qos0, qclose,
                    cache, nextId, nPush, last, lockVars >>

LockNext ==
    \/ \E p \in Procs : begin(p)
    \/ \E p \in Procs : lock(p)
    \/ \E p \in Procs : finish(p)
    \/ drain

SpecLock == InitLock /\ [][LockNext]_vars

\* the scheduling of the lock-level view: a goroutine inside its critical
\* section runs on unless its queue makes it wait, and a goroutine waiting
\* for s.mut gets it if it is free again and again.  Nothing obliges the
\* consumer of the persistent queue to take events.
SpecLockFair ==
    /\ SpecLock
    /\ \A p \in Procs : WF_vars(finish(p)) /\ SF_vars(lock(p))

CloseNext ==
    \/ \E p \in Procs : beginClose(p)
    \/ \E p \in Procs : close0(p)
    \/ \E p \in Procs : close1(p)
    \/ update

SpecClose == Init /\ [][CloseNext]_vars

\* ----------------------------------------------------------------- claims
Elems(q) == { q[k] : k \in 1 .. Len(q) }

\* C1: after subscribe(batch, nil) with a non-empty batch, every (topic, qos)
\* of the batch is in Info.Subscriptions, in the trie with that qos and, for
\* a non-clean session whose storage call succeeded, in the bucket's record.
C1_SubscribeRecordsBatch ==
    (last.op = "subscribe" /\ Len(last.args.batch) > 0 /\ last.args.auth.nil)
    => \A k \in 1 .. Len(last.args.batch) :
          LET s == last.args.batch[k]
          IN  /\ s.topic \in DOMAIN info.subs
              /\ info.subs[s.topic] = s.qos
              /\ s.topic \in DOMAIN subs
              /\ subs[s.topic] = s.qos
              /\ (~info.clean /\ stored) =>
                    \E r \in bucket : /\ s.topic \in DOMAIN r.subs
                                      /\ r.subs[s.topic] = s.qos

\* C2: subscribe(batch, auth) with a non-empty batch and a predicate leaves
\* in Info.Subscriptions exactly the entries of the held set united with the
\* batch whose topic the predicate accepts.
C2_AuthRecheckKeepsAccepted ==
    [][ (last'.op = "subscribe" /\ Len(last'.args.batch) > 0
            /\ ~last'.args.auth.nil)
        => LET batch  == last'.args.batch
               topics == { batch[k].topic : k \in 1 .. Len(batch) }
               latest(t) == CHOOSE k \in 1 .. Len(batch) :
                               /\ batch[k].topic = t
                               /\ \A j \in k + 1 .. Len(batch) : batch[j].topic # t
               united == [t \in DOMAIN info.subs \cup topics |->
                            IF t \in topics THEN batch[latest(t)].qos
                            ELSE info.subs[t]]
               kept   == DOMAIN united \ last'.args.auth.rejects
           IN  info'.subs = [t \in kept |-> united[t]] ]_vars

\* C3: in every reachable state the trie registers exactly the topics of
\* Info.Subscriptions, each with its qos.
C3_MatcherMirrorsInfo ==
    /\ DOMAIN subs = DOMAIN info.subs
    /\ \A t \in DOMAIN subs : subs[t] = info.subs[t]

\* C4 as stated: matchQOS(t) directly after unsubscribe(topics), t in topics,
\* reports no match, whatever else the session holds.
C4_UnsubscribedNeverMatches ==
    (last.op = "matchQOS" /\ last.args.topic \in Elems(last.res.unsubscribed))
    => ~last.res.match.ok

\* C4 as amended: directly after unsubscribe(topics), no t in topics is
\* registered in the trie, and matchQOS(t) reports a match only when a
\* subscription the session still holds matches t.
C4_UnsubscribedMatchesOnlyThroughHeld ==
    (last.op = "matchQOS" /\ last.args.topic \in Elems(last.res.unsubscribed))
    => /\ last.args.topic \notin DOMAIN subs
       /\ last.res.match.ok =>
             \E p \in DOMAIN info.subs : /\ p # last.args.topic
                                         /\ TopicMatches(p, last.args.topic)

\* matchQOS of a topic just unsubscribed finds nothing although the trie
\* still holds other subscriptions
C4_Witness ==
    /\ last.op = "matchQOS"
    /\ last.args.topic \in Elems(last.res.unsubscribed)
    /\ ~last.res.match.ok
    /\ DOMAIN subs # {}

\* C5: a guaranteed event matching some subscription is pushed to the
\* persistent queue iff a matching subscription has qos >= 1, to the
\* temporary queue iff all matching subscriptions have qos 0, never to both.
C5_MaxQosRouting ==
    (last.op = "Push" /\ last.args.ev.qos >= 1
        /\ TrieMatch(subs, last.args.ev.topic) # {})
    => LET qs == TrieMatch(subs, last.args.ev.topic)
       IN  /\ ("qos1" \in last.res.pushed) <=> (\E q \in qs : q >= 1)
           /\ ("qos0" \in last.res.pushed) <=> (\A q \in qs : q = 0)
           /\ Cardinality(last.res.pushed) = 1
           /\ last.args.id \in Elems(qos1) => "qos1" \in last.res.pushed
           /\ last.args.id \in Elems(qos0) => "qos0" \in last.res.pushed
           /\ ~last.res.err => last.args.id \in Elems(qos0) \cup Elems(qos1)

\* a guaranteed event matched by a qos 0 and a qos 1 subscription has gone to
\* the persistent queue
C5_Witness ==
    /\ last.op = "Push"
    /\ last.args.ev.qos >= 1
    /\ TrieMatch(subs, last.args.ev.topic) = { 0, 1 }
    /\ last.res.pushed = { "qos1" }
    /\ last.args.id \in Elems(qos1)

\* C6: a guaranteed event matching no subscription has its completion
\* callback called exactly once, reaches neither queue, and Push returns nil.
C6_UnmatchedDropped ==
    (last.op = "Push" /\ last.args.ev.qos >= 1
        /\ TrieMatch(subs, last.args.ev.topic) = {})
    => /\ last.res.done = 1
       /\ last.res.pushed = {}
       /\ ~last.res.err
       /\ last.args.id \notin Elems(qos0) \cup Elems(qos1)

\* a guaranteed event was dropped while the session held subscriptions
C6_Witness ==
    /\ last.op = "Push"
    /\ last.args.ev.qos >= 1
    /\ TrieMatch(subs, last.args.ev.topic) = {}
    /\ DOMAIN subs # {}
    /\ last.res.done = 1

\* C7: a best-effort event is pushed to the temporary queue and never to the
\* persistent queue, whatever matches its topic.
C7_BestEffortBypass ==
    (last.op = "Push" /\ last.args.ev.qos = 0)
    => /\ last.res.pushed = { "qos0" }
       /\ last.args.id \notin Elems(qos1)
       /\ ~last.res.err => last.args.id \in Elems(qos0)

\* a best-effort event went to the temporary queue although a qos 1
\* subscription matches its topic
C7_Witness ==
    /\ last.op = "Push"
    /\ last.args.ev.qos = 0
    /\ 1 \in TrieMatch(subs, last.args.ev.topic)
    /\ last.args.id \in Elems(qos0)

C9_UnsubscribeTwiceSameAsOnce ==
    [][ (last'.op = "unsubscribe" /\ last'.again)
        => /\ info' = info
           /\ subs' = subs
           /\ bound' = bound
           /\ bucket' = bucket ]_vars

\* C9 as amended: ... the bucket too, unless the first call's storage call
\* failed and the second's succeeded.
C9_UnsubscribeTwiceSameUnlessRetried ==
    [][ (last'.op = "unsubscribe" /\ last'.again)
        => /\ info' = info
           /\ subs' = subs
           /\ bound' = bound
           /\ (bucket' = bucket \/ (~stored /\ stored')) ]_vars

\* a non-empty topic list has been unsubscribed twice in a row, both times
\* stored, while the trie holds other subscriptions
C9_Witness ==
    /\ last.op = "unsubscribe"
    /\ last.again
    /\ Len(last.args.topics) > 0
    /\ stored
    /\ DOMAIN subs # {}

\* C10: acknowledge(id) of an id the cache does not hold returns normally and
\* leaves the cache's entries as they were.
C10_AcknowledgeUnknown ==
    [][ (last'.op = "acknowledge" /\ last'.args.id \notin cache)
        => /\ ~last'.res.err
           /\ last'.res.warned
           /\ \A other \in 1 .. MaxId + 1 : (other \in cache') <=> (other \in cache) ]_vars

\* an id the cache does not hold has been acknowledged while another is held
C10_Witness ==
    /\ last.op = "acknowledge"
    /\ last.res.warned
    /\ cache # {}

\* C11: between calls, when the storage call of the latest persistent()
\* succeeded (so in particular when all storage calls have), the bucket holds
\* the record of the in-memory Info if CleanSession is false and no record
\* if it is true.
C11_BucketMirrorsInfo ==
    stored => bucket = IF info.clean THEN {} ELSE { Record(info) }

\* an update has set a will on a non-clean session holding subscriptions and
\* the record carries both
C11_Witness ==
    /\ last.op = "update"
    /\ stored
    /\ ~info.clean
    /\ info.will = "w"
    /\ DOMAIN info.subs # {}
    /\ bucket = { Record(info) }

\* C12: no two of Push, subscribe, unsubscribe, update and cleanWill are in
\* their critical sections together, and none of them is while a will,
\* matchQOS or acknowledge is in its own.
C12_WritersExclude ==
    \A p, q \in Procs :
        (p # q /\ pc[p] = "in" /\ pc[q] = "in")
        => /\ call[p].op \in { "will", "matchQOS", "acknowledge" }
           /\ call[q].op \in { "will", "matchQOS", "acknowledge" }

\* a Push is in its critical section while an update waits for the lock
C12_Witness ==
    \E p, q \in Procs :
        /\ pc[p] = "in" /\ call[p].op = "Push"
        /\ pc[q] = "lock" /\ call[q].op = "update"

C14_RejectedAreGone ==
    (/\ last.op = "subscribe"
     /\ last.args.batch # <<>>
     /\ ~last.args.auth.nil)
    => /\ DOMAIN info.subs \cap last.args.auth.rejects = {}
       /\ \A p \in last.res.rejected :
              /\ p \notin DOMAIN info.subs
              /\ p \notin DOMAIN subs
              /\ p \notin bound

\* the predicate refused one held topic and let another stay
C14_Witness ==
    /\ last.op = "subscribe" /\ last.args.batch # <<>> /\ ~last.args.auth.nil
    /\ last.res.rejected # {}
    /\ DOMAIN info.subs # {}

\* C15: subscribe with an empty batch and unsubscribe with an empty topic
\* list leave Info, the matcher, the bindings and the persisted record as
\* they were, never call the predicate and never call persistent().
C15_EmptyInputChangesNothing ==
    [][ (\/ last'.op = "subscribe" /\ last'.args.batch = <<>>
         \/ last'.op = "unsubscribe" /\ last'.args.topics = <<>>)
        => /\ UNCHANGED << info, subs, bound, bucket, stored >>
           /\ ~last'.res.persisted
           /\ last'.op = "subscribe" => last'.res.asked = {} ]_vars

\* an empty batch came with a predicate that refuses a held topic, and the
\* topic is still held
C15_Witness ==
    /\ last.op = "subscribe" /\ last.args.batch = <<>> /\ ~last.args.auth.nil
    /\ last.args.auth.rejects \cap DOMAIN info.subs # {}
    /\ ~last.res.persisted

\* C16: when the queue Push calls refuses the event, Push returns the
\* failure, does not complete the event, has called that one queue only, and
\* leaves Info, the matcher, the bindings, the cache and both queues as they
\* were.
C16_PushFailurePropagates ==
    [][ (last'.op = "Push" /\ last'.res.qerr)
        => /\ last'.res.err
           /\ last'.res.done = 0
           /\ Cardinality(last'.res.pushed) = 1
           /\ UNCHANGED << info, subs, bound, cache, qos0, qos1 >> ]_vars

\* the persistent queue refused a QoS 1 event routed to it
C16_Witness ==
    /\ last.op = "Push" /\ last.res.qerr /\ last.res.pushed = {"qos1"}
    /\ last.res.err /\ last.res.done = 0

\* C17: when the storage call of persistent() fails in update, cleanWill,
\* subscribe or unsubscribe, the operation completes with its in-memory
\* change to Info, matcher and bindings in place, and the bucket is as it was.
C17_StorageFailureKeepsChange ==
    [][ LET op == last'.op
            a  == last'.args
            st == [info |-> info, subs |-> subs, bound |-> bound]
            s1 == [info |-> info', subs |-> subs', bound |-> bound']
        IN  /\ (op = "update" /\ ~last'.res.stored)
               => /\ info' = [info EXCEPT !.will = a.will, !.clean = a.clean]
                  /\ bucket' = bucket
            /\ (op = "cleanWill" /\ ~last'.res.stored)
               => /\ info' = [info EXCEPT !.will = "none"]
                  /\ bucket' = bucket
            /\ (op = "subscribe" /\ last'.res.persisted /\ ~last'.res.stored)
               => /\ LET r == SubscribeState(info, subs, bound, a.batch, a.auth)
                     IN  s1 = [info |-> r.info, subs |-> r.subs, bound |-> r.bound]
                  /\ bucket' = bucket
            /\ (op = "unsubscribe" /\ last'.res.persisted /\ ~last'.res.stored)
               => /\ s1 = UnsubscribeState(st, a.topics)
                  /\ bucket' = bucket ]_vars

\* an update to a clean session with a new will failed to delete the record
\* and both changes are in Info
C17_Witness ==
    /\ last.op = "update" /\ ~last.res.stored
    /\ last.args.clean /\ info.clean /\ info.will = last.args.will
    /\ bucket # {}

\* C18: when the creation of the durable bucket fails, newSession returns
\* the error, the persisted record is neither written nor deleted, and no
\* queue created by the failed attempt is left open.
C18_FailedCreationLeavesNothing ==
    [][ (last'.op = "newSession" /\ last'.res.err)
        => /\ bucket' = bucket
           /\ qclose'.qos0 # "open"
           /\ qclose'.qos1 # "open" ]_vars

\* C19: whatever update does meanwhile, a close() that has returned has
\* passed the same flag to the Close of both queues.
C19_CloseFlagsAgree ==
    \A p \in Procs :
        (call[p].op = "close" /\ pc[p] = "idle") => call[p].f0 = call[p].f1

\* a Push inside its critical section, waiting for room in the full
\* persistent queue
BlockedPush(q) ==
    /\ pc[q] = "in"
    /\ call[q].op = "Push"
    /\ "qos1" \in Route(subs, LockEvent).pushed
    /\ ~HasRoom(qos1)

WaitingReader(p) ==
    pc[p] = "lock" /\ call[p].op \in { "acknowledge", "matchQOS" }

\* C20 as stated: under fair scheduling every acknowledge and matchQOS call
\* eventually returns, also while a Push is waiting on the full persistent
\* queue.
C20_ReadersReturn ==
    \A p \in Procs : WaitingReader(p) ~> (pc[p] = "idle")

\* C20, amended: every acknowledge and matchQOS call eventually returns
\* provided the persistent queue has room again and again; a Push waiting
\* on the full queue holds the write lock and keeps the readers out until
\* then.
C20_ReadersReturnIfDrained ==
    ([]<>HasRoom(qos1)) => (\A p \in Procs : WaitingReader(p) ~> (pc[p] = "idle"))

\* a reader waits for the lock held by a Push that waits for the queue
C20_Witness ==
    \E p, q \in Procs : WaitingReader(p) /\ BlockedPush(q)

====
